---------------------------- MODULE Spec2Model ----------------------------
(***************************************************************************)
(* Model of the solved.ac MCP server (src/solvedac_server.py) and of its   *)
(* demo client (src/client_resources.py).                                  *)
(*                                                                         *)
(* State: the module-level slot state["http_client"], the httpx clients    *)
(* created by lifespan(), the position of every lifespan() window, the     *)
(* position of every coroutine running a core operation, and the last      *)
(* prompt built.  Strings are sequences of one-character strings; a fixed  *)
(* literal of the source is kept as one element of such a sequence.        *)
(***************************************************************************)
EXTENDS Integers, Sequences, FiniteSets, TLC

VARIABLES
    http_client,   \* state["http_client"]: None or the id of a client
    clientState,   \* per httpx.AsyncClient id: "unborn", "open" or "closed"
    wpc,           \* per lifespan() window: "out", "body" (at yield), "aclose"
    wclient,       \* per window: the client its last entry created (None before)
    wraised,       \* per window in its finally block: whether an exception is pending
    calls,         \* per coroutine slot: the invocation it runs and its outcome
    prompt         \* the last prompt-builder call and the messages it returned

vars == <<http_client, clientState, wpc, wclient, wraised, calls, prompt>>

-----------------------------------------------------------------------------
(* Bounds of the model *)

MaxWindows == 2
MaxClients == 2
MaxCalls == 2
MaxItems == 1
MaxLen == 2
MaxPage == 11

Windows == 1..MaxWindows
ClientIds == 1..MaxClients
Calls == 1..MaxCalls

None == 0

-----------------------------------------------------------------------------
(* Strings *)

RECURSIVE SeqsUpTo(_, _)
SeqsUpTo(S, n) ==
    IF n = 0 THEN {<<>>}
    ELSE LET shorter == SeqsUpTo(S, n - 1)
         IN  shorter \cup {Append(s, c) : s \in shorter, c \in S}

\* t occurs in s as a contiguous substring (Python's `t in s`)
Contains(s, t) ==
    \E k \in 0..(Len(s) - Len(t)) :
        \A j \in 1..Len(t) : s[k + j] = t[j]

Digit(d) == CASE d = 0 -> "0" [] d = 1 -> "1" [] d = 2 -> "2" [] d = 3 -> "3"
              [] d = 4 -> "4" [] d = 5 -> "5" [] d = 6 -> "6" [] d = 7 -> "7"
              [] d = 8 -> "8" [] d = 9 -> "9"

\* f"{page}" for an int: optional sign, then the decimal digits
RECURSIVE NatToStr(_)
NatToStr(n) == IF n < 10 THEN <<Digit(n)>>
               ELSE Append(NatToStr(n \div 10), Digit(n % 10))

IntToStr(n) == IF n < 0 THEN <<"-">> \o NatToStr(0 - n) ELSE NatToStr(n)

-----------------------------------------------------------------------------
(* Inputs *)

Handles == {<<"k", "b">>, <<"x">>}
Queries == {<<"t", ":", "g">>, <<"d", "p">>}
Pages == (0 - 1)..2
Vias == {"core", "tool", "resource"}

\* HTTP statuses a response can carry: success, client errors, server errors
Statuses == {200, 400, 403, 404, 429, 500, 503, 599}

\* httpx.RequestError subclasses raised by the transport (DNS/connect, timeouts)
Faults == {"ConnectError", "ConnectTimeout", "ReadTimeout"}

-----------------------------------------------------------------------------
(* Schema types (pydantic models, extra="ignore").  A JSON value is modelled *)
(* by its JSON type: "str" (a non-numeric string), "int", "bool", "null",    *)
(* or "absent" when the key is missing.                                      *)

UserFields == {"handle", "tier", "rating", "solvedCount"}
UserFieldType == [handle |-> "str", tier |-> "int", rating |-> "int", solvedCount |-> "int"]

\* JSON objects a 200 response of /user/show may carry
UserBodies == [UserFields \cup {"extra"} -> {"str", "int", "absent"}]

\* a validation that only asks for the keys to be present
UserShowResponsePresent(b) == \A f \in UserFields : b[f] # "absent"

\* UserShowResponse.model_validate: every declared field present with its type
UserShowResponseValid(b) == \A f \in UserFields : b[f] = UserFieldType[f]

\* the validated instance: the declared fields only, unknown keys dropped
UserShowResponse(b) == [f \in UserFields |-> b[f]]

ProblemFields == {"problemId", "titleKo", "level", "isSolvable"}

ProblemOk == [problemId |-> "int", titleKo |-> "str", level |-> "int", isSolvable |-> "bool"]

\* a well-formed row, and rows with one key changed
ProblemBodies ==
    {ProblemOk}
    \cup {[ProblemOk EXCEPT !.titleKo = t] : t \in {"null", "absent", "int"}}
    \cup {[ProblemOk EXCEPT !.problemId = t] : t \in {"absent"}}
    \cup {[ProblemOk EXCEPT !.level = t] : t \in {"str"}}
    \cup {[ProblemOk EXCEPT !.isSolvable = t] : t \in {"null"}}

\* Problem.model_validate: titleKo is Optional[str] with default None
ProblemValid(p) ==
    /\ p.problemId = "int"
    /\ p.titleKo \in {"str", "null", "absent"}
    /\ p.level = "int"
    /\ p.isSolvable = "bool"

Problem(p) ==
    [problemId |-> p.problemId,
     titleKo |-> IF p.titleKo = "absent" THEN "null" ELSE p.titleKo,
     level |-> p.level,
     isSolvable |-> p.isSolvable]

\* JSON objects a 200 response of /search/problem may carry; items is a list
\* (itemsType = "list") of objects, or absent, or a value of another type
SearchBodies ==
    [count : {"int", "str", "absent"}, itemsType : {"list"},
     items : SeqsUpTo(ProblemBodies, MaxItems)]
    \cup [count : {"int", "str", "absent"}, itemsType : {"absent", "str"}, items : {<<>>}]

\* ProblemSearchResponse.model_validate
ProblemSearchResponseValid(b) ==
    /\ b.count = "int"
    /\ b.itemsType = "list"
    /\ \A k \in 1..Len(b.items) : ProblemValid(b.items[k])

ProblemSearchResponse(b) ==
    [count |-> b.count, items |-> [k \in 1..Len(b.items) |-> Problem(b.items[k])]]

NoBody == <<>>

\* What the transport hands back for one request: a response, or a fault
StatusResponses(bodies) ==
    [status : {200}, body : bodies, fault : {""}]
    \cup [status : Statuses \ {200}, body : {NoBody}, fault : {""}]
FaultResponses == [status : {0}, body : {NoBody}, fault : Faults]
NoResponse == [status |-> 0, body |-> NoBody, fault |-> ""]

\* Response.raise_for_status(): every 2xx passes, the rest raise HTTPStatusError
is_success(s) == 200 <= s /\ s < 300

-----------------------------------------------------------------------------
(* Outcomes of an invocation: a returned value, or a raised exception with   *)
(* its class, its message, the response status it carries and its cause.     *)
(* The Korean literals of the source are written here in English.            *)

Returned(v) == [ok |-> TRUE, value |-> <<v>>, exc |-> "", msg |-> <<>>, status |-> 0, cause |-> ""]
Raised(cls, m, s, c) == [ok |-> FALSE, value |-> <<>>, exc |-> cls, msg |-> m, status |-> s, cause |-> c]
NoResult == [ok |-> FALSE, value |-> <<>>, exc |-> "", msg |-> <<>>, status |-> 0, cause |-> ""]

ClientNotAvailable == Raised("RuntimeError", <<"HTTP Client is not available.">>, 0, "")

\* httpx.AsyncClient.send on a client whose aclose() has begun
ClientHasBeenClosed ==
    Raised("RuntimeError", <<"Cannot send a request, as the client has been closed.">>, 0, "")

\* the protocol binding rejecting page < 1 (Field(1, ge=1))
PageNotGe1 == Raised("ValidationError", <<"page: Input should be greater than or equal to 1">>, 0, "")

TooManyRequests ==
    Raised("RuntimeError", <<"Too many requests (429). Try again later.">>, 0, "HTTPStatusError")

ServerError ==
    Raised("RuntimeError", <<"solved.ac server error. Try again later.">>, 0, "HTTPStatusError")

\* a not-found message that leaves the handle out
UserNotFoundUnnamed(handle) ==
    Raised("ValueError", <<"User handle could not be found.">>, 0, "HTTPStatusError")

UserNotFound(handle) ==
    Raised("ValueError", <<"User handle '">> \o handle \o <<"' could not be found.">>,
           0, "HTTPStatusError")

\* the transport's exception let through as it is
UserFaultUncaught(fault) == Raised(fault, <<fault>>, 0, "")

UserNetworkError(fault) ==
    Raised("RuntimeError", <<"Network error, could not fetch the user info: ", fault>>, 0, fault)

SearchNetworkError(fault) ==
    Raised("RuntimeError", <<"Network error, the problem search failed: ", fault>>, 0, fault)

\* the bare `raise`: the HTTPStatusError itself, carrying the response
Reraised(s) == Raised("HTTPStatusError", <<"status ">> \o IntToStr(s), s, "")

ResponseInvalid(model) == Raised("ValidationError", <<"validation error for ", model>>, 0, "")

\* get_user_info_core from the response on: lines 79-91
UserOutcome(handle, r) ==
    IF r.fault # "" THEN UserNetworkError(r.fault)
    ELSE IF is_success(r.status)
         THEN IF UserShowResponseValid(r.body)
              THEN Returned(UserShowResponse(r.body))
              ELSE ResponseInvalid("UserShowResponse")
         ELSE IF r.status = 404 THEN UserNotFound(handle)
         ELSE IF r.status = 429 THEN TooManyRequests
         ELSE IF 500 <= r.status /\ r.status < 600 THEN ServerError
         ELSE Reraised(r.status)

\* search_problems_core without its 429 branch
SearchOutcomeNo429(r) ==
    IF r.fault # "" THEN SearchNetworkError(r.fault)
    ELSE IF is_success(r.status)
         THEN IF ProblemSearchResponseValid(r.body)
              THEN Returned(ProblemSearchResponse(r.body))
              ELSE ResponseInvalid("ProblemSearchResponse")
         ELSE IF 500 <= r.status /\ r.status < 600 THEN ServerError
         ELSE Reraised(r.status)

\* search_problems_core from the response on: lines 99-109
SearchOutcome(r) ==
    IF r.fault # "" THEN SearchNetworkError(r.fault)
    ELSE IF is_success(r.status)
         THEN IF ProblemSearchResponseValid(r.body)
              THEN Returned(ProblemSearchResponse(r.body))
              ELSE ResponseInvalid("ProblemSearchResponse")
         ELSE IF r.status = 429 THEN TooManyRequests
         ELSE IF 500 <= r.status /\ r.status < 600 THEN ServerError
         ELSE Reraised(r.status)

\* The failure kind of the specification's taxonomy that a raised exception is,
\* read off its class and its message
Kind(e) ==
    CASE e.exc = "ValidationError" /\ e.msg = PageNotGe1.msg -> "InvalidArgument"
      [] e.exc = "ValidationError" /\ e.msg # PageNotGe1.msg -> "InvalidResponseShape"
      [] e.exc = "ValueError" -> "NotFound"
      [] e.exc = "HTTPStatusError" -> "UnexpectedStatus"
      [] e.exc = "RuntimeError" /\ e.msg = ClientNotAvailable.msg -> "ClientUnavailable"
      [] e.exc = "RuntimeError" /\ e.msg = TooManyRequests.msg -> "RateLimited"
      [] e.exc = "RuntimeError" /\ e.msg = ServerError.msg -> "RemoteUnavailable"
      [] e.exc = "RuntimeError" /\ e.cause \in Faults -> "NetworkError"
      [] OTHER -> "Other"

-----------------------------------------------------------------------------
(* State *)

IdleCall ==
    [pc |-> "idle", op |-> "", via |-> "", handle |-> <<>>, query |-> <<>>, page |-> 0,
     client |-> None, reqs |-> 0, wins |-> {}, resp |-> NoResponse, result |-> NoResult]

NoPrompt == [site |-> "", natural_request |-> <<>>, page |-> 0, out |-> <<>>]

\* module import: state = {"http_client": None}, no window entered, nothing running
Init ==
    /\ http_client = None
    /\ clientState = [c \in ClientIds |-> "unborn"]
    /\ wpc = [w \in Windows |-> "out"]
    /\ wclient = [w \in Windows |-> None]
    /\ wraised = [w \in Windows |-> FALSE]
    /\ calls = [i \in Calls |-> IdleCall]
    /\ prompt = NoPrompt

Unborn == {c \in ClientIds : clientState[c] = "unborn"}
Open == {c \in ClientIds : clientState[c] = "open"}
InBody == {w \in Windows : wpc[w] = "body"}

-----------------------------------------------------------------------------
(* Remote client lifecycle: lifespan() *)

\* entering `async with lifespan(app)`: a new client is stored in the slot,
\* whatever the slot held, and the window waits at its yield
LifespanEnter(w) ==
    /\ wpc[w] = "out"
    /\ Unborn # {}
    /\ LET c == CHOOSE x \in Unborn : \A y \in Unborn : x <= y
       IN  /\ clientState' = [clientState EXCEPT ![c] = "open"]
           /\ http_client' = c
           /\ wclient' = [wclient EXCEPT ![w] = c]
    /\ wpc' = [wpc EXCEPT ![w] = "body"]
    /\ wraised' = [wraised EXCEPT ![w] = FALSE]
    /\ UNCHANGED <<calls, prompt>>

\* the body ends, normally or by an exception thrown in at the yield, and the
\* finally block runs up to its await: the client the slot holds now starts
\* closing (httpx marks it closed before it awaits the transport); with an
\* empty slot nothing is closed and the slot is assigned None at once
LifespanFinally(w, raised) ==
    /\ wpc[w] = "body"
    /\ IF http_client # None
       THEN /\ clientState' = [clientState EXCEPT ![http_client] = "closed"]
            /\ wpc' = [wpc EXCEPT ![w] = "aclose"]
            /\ wraised' = [wraised EXCEPT ![w] = raised]
            /\ UNCHANGED http_client
       ELSE /\ http_client' = None
            /\ wpc' = [wpc EXCEPT ![w] = "out"]
            /\ UNCHANGED <<clientState, wraised>>
    /\ calls' = [i \in Calls |-> [calls[i] EXCEPT !.wins = @ \ {w}]]
    /\ UNCHANGED <<wclient, prompt>>

\* aclose() has returned: state["http_client"] = None
LifespanCleared(w) ==
    /\ wpc[w] = "aclose"
    /\ http_client' = None
    /\ wpc' = [wpc EXCEPT ![w] = "out"]
    /\ wraised' = [wraised EXCEPT ![w] = FALSE]
    /\ UNCHANGED <<clientState, wclient, calls, prompt>>

-----------------------------------------------------------------------------
(* Core operations, up to the await of client.get *)

\* a core operation that does not test the slot before it uses the client
BeginUnchecked(c) ==
    IF http_client # None /\ clientState[http_client] # "open"
    THEN [c EXCEPT !.pc = "done", !.client = http_client, !.result = ClientHasBeenClosed]
    ELSE [c EXCEPT !.pc = "awaiting", !.client = http_client, !.reqs = 1, !.wins = InBody]

\* the client is read from the slot once; an empty slot raises; otherwise the
\* one GET is issued through it, which httpx refuses on a closed client
Begin(c) ==
    IF http_client = None
    THEN [c EXCEPT !.pc = "done", !.result = ClientNotAvailable]
    ELSE IF clientState[http_client] # "open"
    THEN [c EXCEPT !.pc = "done", !.client = http_client, !.result = ClientHasBeenClosed]
    ELSE [c EXCEPT !.pc = "awaiting", !.client = http_client, !.reqs = 1, !.wins = InBody]

get_user_info_core(i, via, handle) ==
    /\ calls[i].pc = "idle"
    /\ calls' = [calls EXCEPT ![i] =
                    Begin([IdleCall EXCEPT !.op = "user", !.via = via, !.handle = handle])]
    /\ UNCHANGED <<http_client, clientState, wpc, wclient, wraised, prompt>>

search_problems_core(i, via, query, page) ==
    /\ calls[i].pc = "idle"
    /\ calls' = [calls EXCEPT ![i] =
                    Begin([IdleCall EXCEPT !.op = "search", !.via = via,
                                              !.query = query, !.page = page])]
    /\ UNCHANGED <<http_client, clientState, wpc, wclient, wraised, prompt>>

\* the awaited GET completes, with a response or a transport fault, and the
\* coroutine runs to its return or raise
Resume(i, r) ==
    /\ calls[i].pc = "awaiting"
    /\ LET c == calls[i]
       IN  calls' = [calls EXCEPT ![i] =
                        [c EXCEPT !.pc = "done", !.resp = r,
                                  !.result = IF c.op = "user" THEN UserOutcome(c.handle, r)
                                             ELSE SearchOutcome(r)]]
    /\ UNCHANGED <<http_client, clientState, wpc, wclient, wraised, prompt>>

\* the caller has taken the value or the exception
Return(i) ==
    /\ calls[i].pc = "done"
    /\ calls' = [calls EXCEPT ![i] = IdleCall]
    /\ UNCHANGED <<http_client, clientState, wpc, wclient, wraised, prompt>>

-----------------------------------------------------------------------------
(* Capability bindings *)

get_user_info_tool(i, handle) == get_user_info_core(i, "tool", handle)

get_user_info(i, handle) == get_user_info_core(i, "resource", handle)

\* the declared parameter contract of a binding: page is Field(1, ge=1)
Rejected(i, via, query, page) ==
    /\ calls[i].pc = "idle"
    /\ calls' = [calls EXCEPT ![i] =
                    [IdleCall EXCEPT !.pc = "done", !.op = "search", !.via = via,
                                     !.query = query, !.page = page, !.result = PageNotGe1]]
    /\ UNCHANGED <<http_client, clientState, wpc, wclient, wraised, prompt>>

search_problems_tool(i, query, page) ==
    IF page >= 1 THEN search_problems_core(i, "tool", query, page)
    ELSE Rejected(i, "tool", query, page)

search_problems(i, query, page) ==
    IF page >= 1 THEN search_problems_core(i, "resource", query, page)
    ELSE Rejected(i, "resource", query, page)

-----------------------------------------------------------------------------
(* Prompt builder *)

\* the fixed assistant text (its backquotes written as quotes)
AssistantText ==
    <<"You are a Solved.ac search assistant.\n",
      "1) Convert the user's request into a precise Solved.ac query string ",
      "(e.g., 'tier:g5..p5 tag:dfs -tag:greedy').\n",
      "2) Do NOT browse the web.\n",
      "3) Call the MCP TOOL 'solvedac_search_problems' with {query, page}.\n",
      "4) Rank top 5 by suitability and show: problemId, titleKo, level.">>

PromptMessage(role, text) == [role |-> role, content |-> [type |-> "text", text |-> text]]

\* lines 111-140
search_workflow_prompt_core(natural_request, page) ==
    LET sys == PromptMessage("assistant", AssistantText)
        usr == PromptMessage("user",
                   <<"Request (natural language): ">> \o natural_request \o <<"\n">>
                   \o <<"Page: ">> \o IntToStr(page) \o <<"\n">>
                   \o <<"Rule: present the query first, then call the resource and evaluate the results.">>)
    IN  <<sys, usr>>

\* a registered prompt whose user message leaves the page out
search_workflow_prompt_no_page(natural_request, page) ==
    LET sys == PromptMessage("assistant", AssistantText)
        usr == PromptMessage("user",
                   <<"Request (natural language): ">> \o natural_request \o <<"\n">>
                   \o <<"Rule: present the query first, then call the resource and evaluate the results.">>)
    IN  <<sys, usr>>

\* lines 166-195
search_workflow_prompt(natural_request, page) ==
    LET sys == PromptMessage("assistant", AssistantText)
        usr == PromptMessage("user",
                   <<"Request (natural language): ">> \o natural_request \o <<"\n">>
                   \o <<"Page: ">> \o IntToStr(page) \o <<"\n">>
                   \o <<"Rule: present the query first, then call the resource and evaluate the results.">>)
    IN  <<sys, usr>>

\* the direct call of client_resources.py (search_workflow_prompt_for_test)
CallPromptCore(natural_request, page) ==
    /\ prompt' = [site |-> "core", natural_request |-> natural_request, page |-> page,
                  out |-> search_workflow_prompt_core(natural_request, page)]
    /\ UNCHANGED <<http_client, clientState, wpc, wclient, wraised, calls>>

\* the registered prompt "solvedac.search-workflow"
CallPrompt(natural_request, page) ==
    /\ prompt' = [site |-> "registered", natural_request |-> natural_request, page |-> page,
                  out |-> search_workflow_prompt(natural_request, page)]
    /\ UNCHANGED <<http_client, clientState, wpc, wclient, wraised, calls>>

Alphabet == {"a", "1"}
Requests == SeqsUpTo(Alphabet, MaxLen)
PromptPages == 1..MaxPage

-----------------------------------------------------------------------------
(* Specifications *)

\* Lifecycle and concurrency: every window, every coroutine slot, the core
\* operations called directly, and one response of each class
LifeUserResponses ==
    {r \in StatusResponses(UserBodies) :
        /\ r.status \in {200}
        /\ r.status = 200 => \A f \in UserFields : r.body[f] = UserFieldType[f] /\ r.body.extra = "absent"}
    \cup {r \in FaultResponses : r.fault = "ReadTimeout"}

LifeSearchResponses ==
    {r \in StatusResponses(SearchBodies) :
        /\ r.status \in {200}
        /\ r.status = 200 => r.body.items = <<>> /\ r.body.count = "int" /\ r.body.itemsType = "list"}
    \cup {r \in FaultResponses : r.fault = "ConnectError"}

LifeResponses(i) ==
    IF calls[i].op = "user" THEN LifeUserResponses ELSE LifeSearchResponses

Next ==
    \/ \E w \in Windows : LifespanEnter(w)
    \/ \E w \in Windows, raised \in BOOLEAN : LifespanFinally(w, raised)
    \/ \E w \in Windows : LifespanCleared(w)
    \/ \E i \in Calls, handle \in {<<"x">>} : get_user_info_core(i, "core", handle)
    \/ \E i \in Calls, query \in {<<"d", "p">>}, page \in {1} :
          search_problems_core(i, "core", query, page)
    \/ \E i \in Calls : \E r \in LifeResponses(i) : Resume(i, r)
    \/ \E i \in Calls : Return(i)

Spec == Init /\ [][Next]_vars

\* One invocation at a time, under every interleaving of the windows
NextCall ==
    \/ \E w \in Windows : LifespanEnter(w)
    \/ \E w \in Windows, raised \in BOOLEAN : LifespanFinally(w, raised)
    \/ \E w \in Windows : LifespanCleared(w)
    \/ \E handle \in Handles : get_user_info_core(1, "core", handle)
    \/ \E query \in {<<"d", "p">>}, page \in {1} : search_problems_core(1, "core", query, page)
    \/ \E r \in LifeResponses(1) : Resume(1, r)
    \/ Return(1)

SpecCall == Init /\ [][NextCall]_vars

\* the transport answers or times out every request (timeout=10.0), and the
\* event loop resumes the coroutine that awaits it
LiveSpec ==
    SpecCall /\ WF_vars(\E r \in LifeResponses(1) : Resume(1, r))

\* Request mediation: one window, one coroutine, every binding, every input
\* and every response
NextOps ==
    \/ LifespanEnter(1)
    \/ \E raised \in BOOLEAN : LifespanFinally(1, raised)
    \/ LifespanCleared(1)
    \/ \E handle \in Handles : get_user_info_core(1, "core", handle)
    \/ \E handle \in Handles : get_user_info_tool(1, handle)
    \/ \E handle \in Handles : get_user_info(1, handle)
    \/ \E query \in Queries, page \in Pages : search_problems_core(1, "core", query, page)
    \/ \E query \in Queries, page \in Pages : search_problems_tool(1, query, page)
    \/ \E query \in Queries, page \in Pages : search_problems(1, query, page)
    \/ \E r \in (IF calls[1].op = "user" THEN StatusResponses(UserBodies)
                 ELSE StatusResponses(SearchBodies)) \cup FaultResponses : Resume(1, r)
    \/ Return(1)

SpecOps == Init /\ [][NextOps]_vars

\* Prompt building: both call sites on every request string and page
NextPrompt ==
    \/ \E nr \in Requests, page \in PromptPages : CallPromptCore(nr, page)
    \/ \E nr \in Requests, page \in PromptPages : CallPrompt(nr, page)

SpecPrompt == Init /\ [][NextPrompt]_vars

-----------------------------------------------------------------------------
(* Claims *)

Started(i) == calls[i].pc = "idle" /\ calls'[i].pc # "idle"
Done(i) == calls[i].pc = "done"
Answered(i) == Done(i) /\ calls[i].reqs = 1 /\ calls[i].resp.fault = ""
ErrorStatus(i) == Answered(i) /\ ~is_success(calls[i].resp.status)

\* C1: an invocation of either core operation started while the slot holds no
\* client (before any activation, or after a deactivation) is over at once,
\* raising the ClientUnavailable failure, with no request issued.
C1_InactiveHandleFails ==
    [][\A i \in Calls :
          (Started(i) /\ http_client = None)
              => /\ calls'[i].pc = "done"
                 /\ ~calls'[i].result.ok
                 /\ Kind(calls'[i].result) = "ClientUnavailable"
                 /\ calls'[i].reqs = 0]_vars

\* a search invocation failed as ClientUnavailable after a window has closed its client
C1_Witness ==
    \E i \in Calls :
        /\ Done(i) /\ calls[i].op = "search"
        /\ Kind(calls[i].result) = "ClientUnavailable" /\ calls[i].reqs = 0
        /\ http_client = None
        /\ \E c \in ClientIds : clientState[c] = "closed"

\* C2: a search invocation with page < 1, made directly or through a binding
\* while the client is active, is over at once with the InvalidArgument
\* failure and no request issued.
C2_PageBelowOneNeverSent ==
    [][\A i \in Calls :
          (/\ Started(i) /\ calls'[i].op = "search" /\ calls'[i].page < 1
           /\ http_client # None /\ clientState[http_client] = "open")
              => /\ calls'[i].pc = "done"
                 /\ Kind(calls'[i].result) = "InvalidArgument"
                 /\ calls'[i].reqs = 0]_vars

\* C3: in either operation a 429 response gives RateLimited and a 5xx response
\* gives RemoteUnavailable, and these two kinds, ClientUnavailable and
\* NetworkError each tell their cause: the status 429, a status in 500..599,
\* no request at all, a transport fault.
C3_StatusKinds ==
    \A i \in Calls :
        Done(i) /\ ~calls[i].result.ok =>
            LET c == calls[i]
                k == Kind(c.result)
                s == c.resp.status
            IN  /\ (Answered(i) /\ s = 429) => k = "RateLimited"
                /\ (Answered(i) /\ 500 <= s /\ s <= 599) => k = "RemoteUnavailable"
                /\ k = "RateLimited" => (Answered(i) /\ s = 429)
                /\ k = "RemoteUnavailable" => (Answered(i) /\ 500 <= s /\ s <= 599)
                /\ k = "ClientUnavailable" => c.reqs = 0
                /\ k = "NetworkError" => (c.reqs = 1 /\ c.resp.fault \in Faults)

\* a search answered 599 failed as RemoteUnavailable
C3_Witness ==
    \E i \in Calls :
        /\ Answered(i) /\ calls[i].op = "search" /\ calls[i].resp.status = 599
        /\ Kind(calls[i].result) = "RemoteUnavailable"

\* C4: a 404 gives NotFound, with the handle in the message, exactly in
\* fetch-user; a 404 in search-problems, and in both any other error status
\* outside 429 and 500..599, gives UnexpectedStatus carrying that status.
C4_NotFoundAndUnexpected ==
    \A i \in Calls :
        Done(i) =>
            LET c == calls[i]
                k == Kind(c.result)
                s == c.resp.status
                passed == (c.op = "search" /\ s = 404)
                          \/ (s # 404 /\ s # 429 /\ ~(500 <= s /\ s <= 599))
            IN  /\ (ErrorStatus(i) /\ c.op = "user" /\ s = 404)
                      => (k = "NotFound" /\ Contains(c.result.msg, c.handle))
                /\ (~c.result.ok /\ k = "NotFound")
                      => (ErrorStatus(i) /\ c.op = "user" /\ s = 404)
                /\ (ErrorStatus(i) /\ passed)
                      => (k = "UnexpectedStatus" /\ c.result.status = s)

\* a search answered 404 raised the status error itself
C4_Witness ==
    \E i \in Calls :
        /\ ErrorStatus(i) /\ calls[i].op = "search" /\ calls[i].resp.status = 404
        /\ Kind(calls[i].result) = "UnexpectedStatus" /\ calls[i].result.status = 404


\* C5: an invocation that awaits its request is eventually over, and one whose
\* request met a transport fault is over with the NetworkError failure, whose
\* cause is that fault.
C5_CompletesOrNetworkError ==
    /\ \A i \in {1} : (calls[i].pc = "awaiting") ~> (calls[i].pc = "done")
    /\ [](\A i \in Calls :
            (Done(i) /\ calls[i].resp.fault # "")
                => /\ ~calls[i].result.ok
                   /\ Kind(calls[i].result) = "NetworkError"
                   /\ calls[i].result.cause = calls[i].resp.fault)

\* a fetch-user invocation whose request timed out is over as NetworkError
C5_Witness ==
    \E i \in Calls :
        /\ Done(i) /\ calls[i].op = "user" /\ calls[i].resp.fault = "ReadTimeout"
        /\ Kind(calls[i].result) = "NetworkError"
        /\ calls[i].result.cause = "ReadTimeout"

\* the fields a validated value must carry, with their types
UserShaped(v) ==
    /\ DOMAIN v = UserFields
    /\ v.handle = "str" /\ v.tier = "int" /\ v.rating = "int" /\ v.solvedCount = "int"

ProblemShaped(v) ==
    /\ DOMAIN v = ProblemFields
    /\ v.problemId = "int" /\ v.level = "int" /\ v.isSolvable = "bool"
    /\ v.titleKo \in {"str", "null"}

SearchShaped(v) ==
    /\ DOMAIN v = {"count", "items"}
    /\ v.count = "int"
    /\ \A k \in DOMAIN v.items : ProblemShaped(v.items[k])

\* a 200 body with a required key missing or of another type
UserMalformed(b) == \E f \in UserFields : b[f] # UserFieldType[f]

SearchMalformed(b) ==
    \/ b.count # "int"
    \/ b.itemsType # "list"
    \/ \E k \in DOMAIN b.items :
          \/ b.items[k].problemId # "int"
          \/ b.items[k].level # "int"
          \/ b.items[k].isSolvable # "bool"
          \/ b.items[k].titleKo = "int"

C7_AtMostOneOpenClient ==
    /\ Cardinality(Open) <= 1
    /\ \A c \in Open : c = http_client

\* C8: a window that has ended has left the client of its entry closed, and a
\* window ends with the slot cleared.
C8_EndedWindowReleased ==
    /\ \A w \in Windows :
          (wpc[w] = "out" /\ wclient[w] # None) => clientState[wclient[w]] = "closed"
    /\ (\A w \in Windows : wpc[w] = "out") => http_client = None

\* C10: a request in flight was issued through a client, and two requests in
\* flight that were issued during one window still at its yield went through
\* the same client.
C10_OneClientPerWindow ==
    \A i, j \in Calls :
        (calls[i].pc = "awaiting" /\ calls[j].pc = "awaiting") =>
            /\ calls[i].client # None
            /\ (calls[i].wins \cap calls[j].wins # {}) => calls[i].client = calls[j].client

\* C9: both call sites return two messages: the assistant's fixed text, then a
\* user message whose text holds the request string and the page in decimal;
\* what one site returns for a request and a page, the other returns too.
C9_PromptMessages ==
    prompt.site # "" =>
        /\ Len(prompt.out) = 2
        /\ prompt.out[1].role = "assistant"
        /\ prompt.out[1].content.text = AssistantText
        /\ prompt.out[2].role = "user"
        /\ Contains(prompt.out[2].content.text, prompt.natural_request)
        /\ Contains(prompt.out[2].content.text, IntToStr(prompt.page))
        /\ prompt.out = IF prompt.site = "core"
                        THEN search_workflow_prompt(prompt.natural_request, prompt.page)
                        ELSE search_workflow_prompt_core(prompt.natural_request, prompt.page)

\* the registered prompt was built for a two-character request and page 11
C9_Witness ==
    /\ prompt.site = "registered"
    /\ Len(prompt.natural_request) = 2
    /\ prompt.page = 11
    /\ Len(prompt.out) = 2

=============================================================================
